---- MODULE Spec2Model ----
(***************************************************************************)
(* A model of DTCC Builder's Python driver layer:                          *)
(*   src/src/dtcc_builder/parameters.py  (the parameter mapping)           *)
(*   src/src/dtcc_builder/builders.py    (compute_domain_bounds,           *)
(*        compute_building_points, compute_building_heights, build_dem,    *)
(*        build_city, build_mesh, build_volume_mesh, build)                *)
(*   src/src/dtcc_builder/model.py       (create_builder_city)             *)
(*   src/pybuilder/pybuilder/Meshing.py  (write_surface)                   *)
(*                                                                         *)
(* Real numbers are held in thousandths (fixed point, scale Milli): 2.5 is *)
(* 2500, 1e-3 is 1.  Objects handed to and returned by the native module   *)
(* _dtcc_builder are identified by integer object ids; what the native     *)
(* code computes is a choice over small sets.                              *)
(***************************************************************************)
EXTENDS Integers, Sequences, FiniteSets, TLC

VARIABLES
    entry,          \* the public function the caller invokes
    pc,             \* position of the (single-threaded) run
    file_path,      \* load_parameters' argument: the parameters file on disk
    parameters,     \* the mapping handed to the build functions (p)
    p0,             \* history: the mapping as it was when the entry function was called
    failure,        \* "" or the exception that ended the run
    returned,       \* history: the functions that have returned normally
    footprint_file, \* bounds of the footprints in buildings_path (before the margin)
    las_file,       \* bounds of the point cloud in pointcloud_path
    pointcloud,     \* the content of the caller's PointCloud object
    point_cloud,    \* the cloud the running function's parameter or local is bound to
    origin,         \* compute_domain_bounds' first result
    bounds,         \* compute_domain_bounds' second result
    city,           \* the content of the caller's City object (mutated in place)
    city_in,        \* history: per function called with the City, its content at the call
    city_out,       \* history: per such function, the City's content at the return
    result,         \* history: per such function, the object id it returned
    builder_city,   \* compute_building_points' local: what extractRoofPoints returned
    i,              \* the index of the building a for loop is at
    writes,         \* history: per building and field, the functions that assigned it
    calls,          \* history: the calls made to collaborators, in order
    next_id,        \* the next fresh object id
    locals,         \* the local variables of build_mesh, build_volume_mesh and build
    heap,           \* the kind of every mesh object created, by object id
    saved           \* the files written, in order

vars == <<entry, pc, file_path, parameters, p0, failure, returned,
          footprint_file, las_file, pointcloud, point_cloud, origin, bounds,
          city, city_in, city_out, result, builder_city, i, writes, calls, next_id,
          locals, heap, saved>>

Milli == 10 * 10 * 10

(***************************************************************************)
(* parameters.py                                                           *)
(***************************************************************************)

\* parameters.py:4-53, the module-level default mapping
_parameters ==
    [ model_name |-> "DTCC",
      auto_domain |-> TRUE,
      generate_surface_mesh |-> TRUE,
      generate_volume_mesh |-> TRUE,
      write_json |-> TRUE,
      write_vtk |-> TRUE,
      write_stl |-> TRUE,
      write_obj |-> FALSE,
      write_protobuf |-> TRUE,
      debug |-> FALSE,
      ground_smoothing |-> 5 * Milli,
      domain_margin |-> 10 * Milli,
      x0 |-> 0,
      y0 |-> 0,
      x_min |-> 0,
      y_min |-> 0,
      x_max |-> 0,
      y_max |-> 0,
      elevation_model_resolution |-> 1 * Milli,
      min_building_distance |-> 1 * Milli,
      min_building_height |-> 2500,
      min_vertex_distance |-> 1 * Milli,
      ground_margin |-> 1 * Milli,
      mesh_resolution |-> 10 * Milli,
      domain_height |-> 100 * Milli,
      groun_percentile |-> 500,
      roof_percentile |-> 900,
      outlier_margin |-> 2 * Milli,
      min_building_size |-> 15 * Milli,
      uuid_field |-> "uuid",
      height_field |-> "",
      statistical_outlier_remover |-> TRUE,
      outlier_neighbors |-> 5 * Milli,
      roof_outlier_margin |-> 1500,
      ransac_outlier_remover |-> TRUE,
      ransac_outlier_margin |-> 3 * Milli,
      ransac_iterations |-> 250 * Milli,
      naive_vegitation_filter |-> TRUE,
      data_directory |-> "",
      buildings_filename |-> "PropertyMap.shp",
      pointcloud_directory |-> "",
      output_directory |-> "" ]

\* dict.update (parameters.py:76): the keys of q are added or overwritten
Update(pp, q) ==
    [k \in DOMAIN pp \cup DOMAIN q |-> IF k \in DOMAIN q THEN q[k] ELSE pp[k]]

\* pathlib.Path(s) and the / operator: a path is the sequence of its parts
Path(s) == <<s>>

PathJoin(a, b) == a \o b

\* the directory names a parameters file may give that are absolute
AbsoluteDirectories == {"/data/las"}

is_absolute(path) == path[1] \in AbsoluteDirectories

\* parameters.py:81-97
set_directories(pp, project_path) ==
    LET p1 == IF pp["data_directory"] = ""
              THEN [pp EXCEPT !["data_directory"] = project_path] ELSE pp
        p2 == IF p1["output_directory"] = ""
              THEN [p1 EXCEPT !["output_directory"] = p1["data_directory"]] ELSE p1
        p3 == [p2 EXCEPT !["data_directory"] = Path(p2["data_directory"]),
                         !["output_directory"] = Path(p2["output_directory"])]
    IN  IF p3["pointcloud_directory"] = ""
        THEN [p3 EXCEPT !["pointcloud_directory"] = p3["data_directory"]]
        ELSE LET pcd == Path(p3["pointcloud_directory"])
             IN  [p3 EXCEPT !["pointcloud_directory"] =
                     IF is_absolute(pcd) THEN pcd
                     ELSE PathJoin(p3["data_directory"], pcd)]

\* parameters.py:56-78.  f.given: file_path is not None; f.exists: the file
\* (or, for a directory, its Parameters.json) exists; f.json: its content.
load_parameters(f, project_path) ==
    LET pp == IF ~f.given THEN _parameters
              ELSE IF ~f.exists THEN _parameters
              ELSE Update(_parameters, f.json)
    IN  set_directories(pp, project_path)

\* the caller passes no mapping (None, or an empty dict: both are falsy)
NoParameters == [k \in {} |-> 0]

\* `parameters or builder_parameters.default()` (builders.py:30, 71, 112, 167,
\* 218, 250, 307, 389): a non-empty mapping is used as it is; otherwise
\* builder_parameters.default is looked up, and parameters.py defines no such
\* function, so the lookup raises AttributeError.
DefaultDefined == FALSE

GetParametersFails(pp) == pp = NoParameters /\ ~DefaultDefined

\* p[k] for every k of keys succeeds (no KeyError)
HasKeys(pp, keys) == keys \subseteq DOMAIN pp

(***************************************************************************)
(* builders.py: compute_domain_bounds                                      *)
(***************************************************************************)

\* The coordinates are Python floats.  A float has a fixed number of
\* significant bits (53 in Python, Precision here) and every sum and
\* difference is rounded to the nearest float, ties to the even one.

\* the number of significant bits of a float
Precision == 12

RECURSIVE Pow2(_)
Pow2(n) == IF n = 0 THEN 1 ELSE 2 * Pow2(n - 1)

Abs(x) == IF x < 0 THEN -x ELSE x

\* the distance between neighbouring floats at the magnitude of x, from s up
RECURSIVE Spacing(_, _)
Spacing(x, s) == IF Abs(x) < s * Pow2(Precision) THEN s ELSE Spacing(x, 2 * s)

\* the float nearest to x
fl(x) ==
    LET s == Spacing(x, 1)
        q == Abs(x) \div s
        r == Abs(x) % s
        n == IF 2 * r < s \/ (2 * r = s /\ q % 2 = 0) THEN q ELSE q + 1
    IN  IF x < 0 THEN -(n * s) ELSE n * s

\* a + b and a - b on floats
float_add(a, b) == fl(a + b)

float_sub(a, b) == fl(a - b)

Max(a, b) == IF a >= b THEN a ELSE b

Min(a, b) == IF a <= b THEN a ELSE b

\* io.city.building_bounds(buildings_path, margin), called at builders.py:35:
\* the bounds of the footprints in the file, enlarged by the margin
building_bounds(fb, margin) ==
    << float_sub(fb[1], margin), float_sub(fb[2], margin),
       float_add(fb[3], margin), float_add(fb[4], margin) >>

\* io.pointcloud.calc_las_bounds(pointcloud_path), called at builders.py:36
calc_las_bounds(lb) == lb

\* io.bounds.bounds_intersect(a, b), called at builders.py:37
bounds_intersect(a, b) ==
    <<Max(a[1], b[1]), Max(a[2], b[2]), Min(a[3], b[3]), Min(a[4], b[4])>>

\* model.Bounds(xmin=, ymin=, xmax=, ymax=), builders.py:57-62
Bounds(b) == [xmin |-> b[1], ymin |-> b[2], xmax |-> b[3], ymax |-> b[4]]

ManualKeys == {"x0", "y0", "x_min", "y_min", "x_max", "y_max"}

\* AutoDomain with the automatic box placed relative to the manual origin
AutoDomain_from_manual_origin(pp, fb, lb) ==
    LET b == bounds_intersect(building_bounds(fb, pp["domain_margin"]),
                              calc_las_bounds(lb))
        shifted == << float_add(pp["x0"], b[1]), float_add(pp["y0"], b[2]),
                      float_add(pp["x0"], b[3]), float_add(pp["y0"], b[4]) >>
    IN  [ origin |-> <<shifted[1], shifted[2]>>,
          bounds |-> shifted,
          p |-> [pp EXCEPT !["x0"] = shifted[1], !["y0"] = shifted[2],
                           !["x_min"] = 0, !["y_min"] = 0,
                           !["x_max"] = float_sub(b[3], b[1]),
                           !["y_max"] = float_sub(b[4], b[2])] ]

\* AutoDomain recording the far corner of the box instead of its extent
AutoDomain_absolute_max(pp, fb, lb) ==
    LET b == bounds_intersect(building_bounds(fb, pp["domain_margin"]),
                              calc_las_bounds(lb))
    IN  [ origin |-> <<b[1], b[2]>>,
          bounds |-> b,
          p |-> [pp EXCEPT !["x0"] = b[1], !["y0"] = b[2],
                           !["x_min"] = 0, !["y_min"] = 0,
                           !["x_max"] = b[3], !["y_max"] = b[4]] ]

\* builders.py:33-46, the branch taken when p["auto_domain"] is true: the
\* bounds come from the two files, and the six manual keys are overwritten
AutoDomain(pp, fb, lb) ==
    LET footprint_bounds == building_bounds(fb, pp["domain_margin"])
        pointcloud_bounds == calc_las_bounds(lb)
        b == bounds_intersect(footprint_bounds, pointcloud_bounds)
    IN  [ origin |-> <<b[1], b[2]>>,
          bounds |-> b,
          p |-> [pp EXCEPT !["x0"] = b[1], !["y0"] = b[2],
                           !["x_min"] = 0, !["y_min"] = 0,
                           !["x_max"] = float_sub(b[3], b[1]),
                           !["y_max"] = float_sub(b[4], b[2])] ]

\* builders.py:47-54, the branch taken when p["auto_domain"] is false
ManualDomain(pp) ==
    [ origin |-> <<pp["x0"], pp["y0"]>>,
      bounds |-> << float_add(pp["x0"], pp["x_min"]), float_add(pp["y0"], pp["y_min"]),
                    float_add(pp["x0"], pp["x_max"]), float_add(pp["y0"], pp["y_max"]) >>,
      p |-> pp ]

\* builders.py:22-64 as a function of the mapping and the two files: the
\* exception raised ("" for none), the mapping afterwards and the two results.
\* No check of the bounds is made before model.Bounds is built and returned.
ComputeDomainBounds(pp, fb, lb) ==
    IF GetParametersFails(pp)
    THEN [failure |-> "AttributeError", p |-> pp, origin |-> <<>>, bounds |-> Bounds(<<0, 0, 0, 0>>)]
    ELSE IF ~HasKeys(pp, {"auto_domain"})
    THEN [failure |-> "KeyError", p |-> pp, origin |-> <<>>, bounds |-> Bounds(<<0, 0, 0, 0>>)]
    ELSE IF pp["auto_domain"] /\ ~HasKeys(pp, {"domain_margin"})
    THEN [failure |-> "KeyError", p |-> pp, origin |-> <<>>, bounds |-> Bounds(<<0, 0, 0, 0>>)]
    ELSE IF ~pp["auto_domain"] /\ ~HasKeys(pp, ManualKeys)
    THEN [failure |-> "KeyError", p |-> pp, origin |-> <<>>, bounds |-> Bounds(<<0, 0, 0, 0>>)]
    ELSE LET r == IF pp["auto_domain"] THEN AutoDomain(pp, fb, lb) ELSE ManualDomain(pp)
         IN  [failure |-> "", p |-> r.p, origin |-> r.origin, bounds |-> Bounds(r.bounds)]

(***************************************************************************)
(* builders.py: compute_building_points, compute_building_heights          *)
(***************************************************************************)

\* the one City object of a run: the functions receive and return references
CityObject == 1

RECURSIVE Insert(_, _)
Insert(x, s) ==
    IF s = <<>> THEN <<x>>
    ELSE IF x <= Head(s) THEN <<x>> \o s
    ELSE <<Head(s)>> \o Insert(x, Tail(s))

RECURSIVE Sort(_)
Sort(s) == IF s = <<>> THEN <<>> ELSE Insert(Head(s), Sort(Tail(s)))

\* np.percentile(z, 100 * q) (builders.py:101 with q = 0.5, builders.py:138
\* with q = roof_percentile), numpy's default linear interpolation between the
\* two order statistics around the virtual index q * (n - 1); q in thousandths
percentile(z, q) ==
    LET s == Sort(z)
        n == Len(s)
        lo == (q * (n - 1)) \div Milli
        frac == (q * (n - 1)) % Milli
        hi == Min(lo + 1, n - 1)
    IN  s[lo + 1] + (frac * (s[hi + 1] - s[lo + 1])) \div Milli

\* model.py:32-48 create_builder_city: a new native city holding a copy of
\* every building's height and ground level
create_builder_city(c, id) ==
    [ fn |-> "create_builder_city", city |-> CityObject, out |-> id,
      buildings |-> Len(c.buildings) ]

\* compute_building_points_calls with the native city simplified before the
\* roof points are extracted
compute_building_points_calls_simplified(c, cloud, id) ==
    << create_builder_city(c, id),
       [ fn |-> "create_builder_pointcloud", pointcloud |-> cloud, out |-> id + 1 ],
       [ fn |-> "SimplifyCity", city |-> id, out |-> id + 2 ],
       [ fn |-> "extractRoofPoints", city |-> id + 2, pointcloud |-> id + 1,
         out |-> id + 2, buildings |-> Len(c.buildings) ] >>

\* builders.py:74-87: the calls compute_building_points makes before its loop;
\* the city it hands to extractRoofPoints is the native copy of its argument
compute_building_points_calls(c, cloud, id) ==
    << create_builder_city(c, id),
       [ fn |-> "create_builder_pointcloud", pointcloud |-> cloud, out |-> id + 1 ],
       [ fn |-> "extractRoofPoints", city |-> id, pointcloud |-> id + 1,
         out |-> id + 2, buildings |-> Len(c.buildings) ] >>

\* attribute assignments `building.<field> = <value>`, applied in order
RECURSIVE Apply(_, _)
Apply(building, assignments) ==
    IF assignments = <<>> THEN building
    ELSE Apply([building EXCEPT ![Head(assignments).field] = Head(assignments).value],
               Tail(assignments))

\* building_points with the ground level left to the height stage
building_points_roof_only(builder_building) ==
    << [field |-> "roofpoints", value |-> builder_building.roof_points] >>

\* builders.py:93-101, one iteration of compute_building_points' loop, as the
\* assignments it makes to the city's building: the roof points always, the
\* ground level (the median of the ground points' z) only when the native
\* building has ground points
building_points(builder_building) ==
    << [field |-> "roofpoints", value |-> builder_building.roof_points] >>
    \o (IF Len(builder_building.ground_points) > 0
        THEN << [ field |-> "ground_level",
                  value |-> percentile(builder_building.ground_points, 500) ] >>
        ELSE <<>>)

\* builders.py:129 `building.ground_level == 0`: the test that the ground
\* level is missing
ground_level_missing(building) == building.ground_level = 0

\* floor_height without its test: the height is never raised to the minimum
floor_height_unfloored(height, min_building_height) == height

\* builders.py:142-146: the floor on the height
floor_height(height, min_building_height) ==
    IF height < min_building_height THEN min_building_height ELSE height

\* builders.py:121-149, one iteration of compute_building_heights' loop, as
\* the assignments it makes to the building
building_height(building, terrain_value, min_building_height, roof_percentile) ==
    IF Len(building.roofpoints) = 0
    THEN << [field |-> "height", value |-> min_building_height] >>
    ELSE LET ground == IF ground_level_missing(building)
                       THEN << [field |-> "ground_level", value |-> terrain_value] >>
                       ELSE <<>>
             ground_level == Apply(building, ground).ground_level
             roof_top == percentile(building.roofpoints, roof_percentile)
             height == roof_top - ground_level
         IN  ground \o << [ field |-> "height",
                            value |-> floor_height(height, min_building_height) ] >>

\* history bookkeeping: function fn made the assignments to building k
RECURSIVE Written(_, _, _, _)
Written(w, k, assignments, fn) ==
    IF assignments = <<>> THEN w
    ELSE Written([w EXCEPT ![k][Head(assignments).field] = Append(@, fn)],
                 k, Tail(assignments), fn)

\* history bookkeeping: fn was called with, or returned, the City as it is
Snapshot(h, fn, c) == Update(h, [f \in {fn} |-> c])

(***************************************************************************)
(* The point cloud: outlier removal and the ground points of build_dem     *)
(***************************************************************************)

\* a point cloud is [points, classification]: points is a sequence of
\* [x, z] (x tells the points apart, z in thousandths) and classification a
\* sequence of LAS classes, one per point when the cloud is classified

\* the sub-sequence of s at the indices idx, numpy's s[idx]
Take(s, idx) == [j \in 1..Len(idx) |-> s[idx[j]]]

\* the indices from k on, in order, at which mask is true (np.where(mask)[0])
RECURSIVE Where(_, _)
Where(mask, k) ==
    IF k > Len(mask) THEN <<>>
    ELSE (IF mask[k] THEN <<k>> ELSE <<>>) \o Where(mask, k + 1)

RECURSIVE Sum(_)
Sum(s) == IF s = <<>> THEN 0 ELSE Head(s) + Sum(Tail(s))

RECURSIVE Gcd(_, _)
Gcd(a, b) == IF b = 0 THEN a ELSE Gcd(b, a % b)

\* global outlier removal: with mu the mean and sigma the standard deviation
\* of z over all n points, a point stays iff |z - mu| <= margin * sigma.
\* Computed without division on the deviations d = n*z - Sum(z): since
\* z - mu = d/n and sigma^2 = Sum(d^2)/n^3, the point stays iff
\* n * d^2 <= margin^2 * Sum(d^2); margin is num/den in lowest terms.
remove_global_outliers(cloud, margin) ==
    LET n == Len(cloud.points)
        total == Sum([k \in 1..n |-> cloud.points[k].z])
        d == [k \in 1..n |-> n * cloud.points[k].z - total]
        spread == Sum([k \in 1..n |-> d[k] * d[k]])
        g == Gcd(margin, Milli)
        num == margin \div g
        den == Milli \div g
        stays == [k \in 1..n |-> n * d[k] * d[k] * den * den <= num * num * spread]
        idx == Where(stays, 1)
    IN  [ points |-> Take(cloud.points, idx),
          classification |-> IF Len(cloud.classification) = n
                             THEN Take(cloud.classification, idx)
                             ELSE cloud.classification ]

\* build_city_point_cloud leaving the cloud as it was given
build_city_point_cloud_unfiltered(cloud, pp) == cloud

\* builders.py:221: the cloud build_city works on from there
build_city_point_cloud(cloud, pp) ==
    remove_global_outliers(cloud, pp["outlier_margin"])

\* builders.py:172
has_classifixation(cloud) == Len(cloud.classification) = Len(cloud.points)

\* PointCloud.used_classifications(): the classes that occur in the cloud
used_classifications(cloud) ==
    { cloud.classification[k] : k \in DOMAIN cloud.classification }

\* builders.py:174: np.where(np.isin(pointcloud.classification, [2, 9]))[0]
ground_point_idx(cloud) ==
    LET isin == [k \in DOMAIN cloud.classification |->
                    cloud.classification[k] \in {2, 9}]
    IN  Where(isin, 1)

\* builders.py:172-177: the points build_dem hands to points2grid
ground_points(cloud) ==
    IF has_classifixation(cloud) /\ 2 \in used_classifications(cloud)
    THEN Take(cloud.points, ground_point_idx(cloud))
    ELSE cloud.points

(***************************************************************************)
(* Meshing.py: write_surface                                               *)
(***************************************************************************)

\* an optional argument: None, or a value
None == [given |-> FALSE]

Some(v) == [given |-> TRUE, value |-> v]

\* Meshing.py:67
supported_formats == {"obj", "stl", "gltf"}

\* Meshing.py:68
y_up_format == {"obj", "gltf"}

\* write_surface taking a false y_up for a missing one (`if not y_up`)
write_surface_falsy(surface, file_name, format, y_up) ==
    IF format \notin supported_formats
    THEN [ returns |-> Some(FALSE), calls |-> <<>> ]
    ELSE [ returns |-> None,
           calls |-> << [ fn |-> "WriteSurface3D", surface |-> surface,
                          file_name |-> file_name,
                          format |-> IF format = "gltf" THEN "gltf2" ELSE format,
                          y_up |-> IF y_up = None \/ ~y_up.value
                                   THEN format \in y_up_format
                                   ELSE y_up.value ] >> ]

\* Meshing.py:66-79: what write_surface returns without calling the writer
\* (returns), or the call whose result it returns (calls)
write_surface(surface, file_name, format, y_up) ==
    IF format \notin supported_formats
    THEN [ returns |-> Some(FALSE), calls |-> <<>> ]
    ELSE [ returns |-> None,
           calls |-> << [ fn |-> "WriteSurface3D", surface |-> surface,
                          file_name |-> file_name,
                          format |-> IF format = "gltf" THEN "gltf2" ELSE format,
                          y_up |-> IF y_up = None
                                   THEN format \in y_up_format
                                   ELSE y_up.value ] >> ]

(***************************************************************************)
(* The inputs of a run                                                     *)
(***************************************************************************)

\* the largest number of buildings of a city
MaxBuildings == 2

\* the largest number of points of a point cloud
MaxPoints == 3

\* the public functions a caller invokes
Entries ==
    {"compute_domain_bounds", "build_dem", "build_city", "build_volume_mesh", "build",
     "write_surface"}

\* the keys the build functions read that parameters.py does not set; a
\* parameters file has to supply them
CompleteJson ==
    [ elevation_model_window_size |-> 3 * Milli,
      smoothing_max_iterations |-> 1000 * Milli,
      smoothing_relative_tolerance |-> 1,
      build_mesh |-> TRUE,
      build_volume_mesh |-> TRUE,
      save_protobuf |-> TRUE,
      save_shp |-> FALSE,
      save_json |-> TRUE,
      save_vtk |-> TRUE,
      save_stl |-> TRUE,
      save_obj |-> FALSE ]

\* parameters files that set the domain by hand or leave it automatic; the
\* manual boxes include inverted ones (x_max < x_min, y_max < y_min)
DomainJsons ==
    { [ auto_domain |-> a, x0 |-> x, y0 |-> y, x_min |-> xa, y_min |-> 0,
        x_max |-> xb, y_max |-> yb ] :
        a \in BOOLEAN, x \in {0, 5000}, y \in {0, 7000}, xa \in {0, 2000},
        xb \in {1000, 4000}, yb \in {3000, -1000} }

CityJsons ==
    { CompleteJson,
      Update(CompleteJson, [ roof_percentile |-> 500, min_building_height |-> 1000,
                             outlier_margin |-> 1 * Milli ]) }

\* what the caller does about parameters: passes none, or passes the result
\* of load_parameters on no file, on a missing file, or on a file with content
Files(jsons) ==
    { [call |-> FALSE], [call |-> TRUE, given |-> FALSE],
      [call |-> TRUE, given |-> TRUE, exists |-> FALSE] }
    \cup { [call |-> TRUE, given |-> TRUE, exists |-> TRUE, json |-> j] : j \in jsons }

\* a file that sets every missing key but the two the smoother needs
PartialJson ==
    [ k \in DOMAIN CompleteJson \ {"smoothing_max_iterations",
                                    "smoothing_relative_tolerance"} |->
        CompleteJson[k] ]

VolumeJsons == { CompleteJson, Update(CompleteJson, [debug |-> TRUE]) }

BuildJsons ==
    { CompleteJson, PartialJson,
      Update(CompleteJson, [build_volume_mesh |-> FALSE]),
      Update(CompleteJson, [ debug |-> TRUE, build_mesh |-> FALSE,
                             save_shp |-> TRUE, save_obj |-> TRUE ]) }

FilesFor(e) ==
    CASE e = "compute_domain_bounds" -> Files(DomainJsons)
      [] e = "build_dem" -> Files({CompleteJson})
      [] e = "write_surface" -> { [call |-> FALSE] }
      [] e = "build_city" -> Files(CityJsons)
      [] e = "build_volume_mesh" -> Files(VolumeJsons)
      [] OTHER -> Files(BuildJsons)

\* bounds (xmin, ymin, xmax, ymax) of the footprints and of the point cloud
FootprintFiles == { <<0, 0, 20000, 20000>>, <<-30000, 5000, 10000, 40000>> }

LasFiles ==
    { <<-8000, -5000, 15000, 25000>>, <<-50000, -50000, 50000, 50000>>,
      <<-3, -5000, Pow2(Precision) - 2, 25000>> }

\* a city as loaded: no terrain yet, no roof points, heights unset
NoTerrain == [built |-> FALSE, at |-> <<>>, mean |-> 0]

GroundLevels == {0, 1500}

LoadedBuildings ==
    { [height |-> 0, ground_level |-> g, roofpoints |-> <<>>] : g \in GroundLevels }

LoadedCities ==
    { [buildings |-> bs, terrain |-> NoTerrain] :
        bs \in UNION { [1..n -> LoadedBuildings] : n \in 0..MaxBuildings } }

\* the rasters build_dem can return for a city of n buildings: `at` is the
\* value get_value gives at each footprint's centroid, `mean` is data.mean()
Rasters(n) ==
    { [built |-> TRUE, at |-> [k \in 1..n |-> v], mean |-> v] : v \in {0, 1000} }
    \cup { [built |-> TRUE, at |-> [k \in 1..n |-> 2000 + 3000 * k], mean |-> 6000] }

\* cities as build_city leaves them, for a caller of build_volume_mesh
BuiltCities ==
    UNION { { [ buildings |-> [k \in 1..n |-> [ height |-> 2500, ground_level |-> 1000,
                                                roofpoints |-> <<3000>> ]],
                terrain |-> r ] : r \in Rasters(n) } : n \in 0..MaxBuildings }

CitiesFor(e) ==
    CASE e = "compute_domain_bounds" -> { [buildings |-> <<>>, terrain |-> NoTerrain] }
      [] e = "build_dem" -> { [buildings |-> <<>>, terrain |-> NoTerrain] }
      [] e = "write_surface" -> { [buildings |-> <<>>, terrain |-> NoTerrain] }
      [] e = "build_volume_mesh" -> BuiltCities
      [] OTHER -> LoadedCities

\* the z of a point, and the LAS classes: 2 ground, 5 high vegetation,
\* 9 water
PointZ == {0, 3 * Milli}

Classes == {2, 5, 9}

\* the points of a cloud of n points
PointsOf(n) == { [k \in 1..n |-> [x |-> k, z |-> z[k]]] : z \in [1..n -> PointZ] }

\* clouds as the reader yields them: one class per point, or no classes
ReadClouds ==
    UNION { { [points |-> pts, classification |-> cls] :
                pts \in PointsOf(n), cls \in [1..n -> Classes] \cup {<<>>} } :
            n \in 0..MaxPoints }

\* clouds whose classification array is shorter than the points array
RaggedClouds ==
    UNION { { [points |-> pts, classification |-> cls] :
                pts \in PointsOf(n), cls \in [1..(n - 1) -> Classes] } :
            n \in 2..MaxPoints }

\* the cloud of the runs that vary the city
OneCloud ==
    [ points |-> << [x |-> 1, z |-> 0] >>, classification |-> << 2 >> ]

\* the city and the point cloud of a run: build_dem is called on every
\* cloud, build_city on every city and, with a city of no building, on
\* every cloud a reader yields
InputsFor(e) ==
    CASE e = "build_dem" -> CitiesFor(e) \X (ReadClouds \cup RaggedClouds)
      [] e = "build_city" -> (CitiesFor(e) \X {OneCloud})
                             \cup ({ [buildings |-> <<>>, terrain |-> NoTerrain] }
                                   \X ReadClouds)
      [] OTHER -> CitiesFor(e) \X {OneCloud}

\* what extractRoofPoints can assign to one building: the z of its roof
\* points and of its ground points
Assignments ==
    { [roof_points |-> <<>>, ground_points |-> <<>>],
      [roof_points |-> <<>>, ground_points |-> <<1000, 2000>>],
      [roof_points |-> <<3000>>, ground_points |-> <<>>],
      [roof_points |-> <<7000, 3000>>, ground_points |-> <<0>>],
      [roof_points |-> <<9000, 3000, 6000>>, ground_points |-> <<2000, 1000>>] }

\* the format and y_up a caller of write_surface passes; a caller that
\* passes no format passes "obj", one that passes no y_up passes None
Formats == {"obj", "stl", "gltf", "gltf2", "vtk", "OBJ"}

ArgumentsFor(e) ==
    IF e = "write_surface"
    THEN { [ surface |-> "surface", file_name |-> "surface.out", format |-> f,
             y_up |-> y ] : f \in Formats, y \in {None, Some(TRUE), Some(FALSE)} }
    ELSE { [f \in {} |-> 0] }

NoWrites == [height |-> <<>>, ground_level |-> <<>>, roofpoints |-> <<>>]

NoHistory == [f \in {} |-> 0]

PointCloudObject == CityObject + 1

Init ==
    /\ entry \in Entries
    /\ pc = "caller"
    /\ file_path \in FilesFor(entry)
    /\ parameters = NoParameters
    /\ p0 = NoParameters
    /\ failure = ""
    /\ returned = {}
    /\ footprint_file \in (IF entry = "compute_domain_bounds" THEN FootprintFiles
                           ELSE {<<0, 0, 20000, 20000>>})
    /\ las_file \in (IF entry = "compute_domain_bounds" THEN LasFiles
                     ELSE {<<-8000, -5000, 15000, 25000>>})
    /\ origin = <<>>
    /\ bounds = Bounds(<<0, 0, 0, 0>>)
    /\ \E input \in InputsFor(entry) : city = input[1] /\ pointcloud = input[2]
    /\ point_cloud = pointcloud
    /\ city_in = NoHistory
    /\ city_out = NoHistory
    /\ result = NoHistory
    /\ builder_city = <<>>
    /\ i = 0
    /\ writes = [k \in 1..Len(city.buildings) |-> NoWrites]
    /\ calls = <<>>
    /\ next_id = PointCloudObject + 1
    /\ locals \in ArgumentsFor(entry)
    /\ heap = NoHistory
    /\ saved = <<>>

(***************************************************************************)
(* The run                                                                 *)
(***************************************************************************)

\* where control goes when fn returns: to the caller of the entry function,
\* or to the statement after the call
Return(fn) ==
    IF entry = fn THEN "done"
    ELSE CASE fn = "compute_domain_bounds" -> "build_load"
           [] fn = "build_dem" -> "compute_building_points"
           [] fn = "compute_building_points" -> "compute_building_heights"
           [] fn = "compute_building_heights" -> "build_city_return"
           [] fn = "build_city" -> "build_save_city"
           [] fn = "build_mesh" -> "build_save_meshes"
           [] fn = "build_volume_mesh" -> "build_save_volume_mesh"
           [] OTHER -> "done"

\* an exception propagates to the caller: nothing catches it
Raise(e) == failure' = e /\ pc' = "failed"

\* the caller obtains the mapping (parameters.py:56-78) and calls the entry
\* function with it, or calls the entry function with no mapping
load_parameters_call ==
    /\ pc = "caller"
    /\ parameters' = (IF file_path.call THEN load_parameters(file_path, ".")
                      ELSE NoParameters)
    /\ p0' = parameters'
    /\ pc' = entry
    /\ UNCHANGED <<entry, file_path, failure, returned, footprint_file, las_file, pointcloud,
                   point_cloud,
                   origin, bounds, city, city_in, city_out, result, builder_city,
                   i, writes, calls, next_id, locals, heap, saved>>

\* builders.py:22-64
compute_domain_bounds ==
    /\ pc = "compute_domain_bounds"
    /\ LET r == ComputeDomainBounds(parameters, footprint_file, las_file)
       IN  IF r.failure # ""
           THEN Raise(r.failure) /\ UNCHANGED <<parameters, origin, bounds, returned>>
           ELSE /\ parameters' = r.p
                /\ origin' = r.origin
                /\ bounds' = r.bounds
                /\ returned' = returned \cup {"compute_domain_bounds"}
                /\ pc' = Return("compute_domain_bounds")
                /\ UNCHANGED failure
    /\ UNCHANGED <<entry, file_path, p0, footprint_file, las_file, pointcloud,
                   point_cloud, city, city_in,
                   city_out, result, builder_city, i, writes, calls, next_id,
                   locals, heap, saved>>

\* builders.py:215-221: build_city up to its first stage.  The cloud returned
\* by remove_global_outliers replaces the local point_cloud.
build_city ==
    /\ pc = "build_city"
    /\ city_in' = Snapshot(city_in, "build_city", city)
    /\ IF GetParametersFails(parameters)
       THEN Raise("AttributeError") /\ UNCHANGED <<calls, next_id, point_cloud>>
       ELSE IF ~HasKeys(parameters, {"outlier_margin"})
       THEN Raise("KeyError") /\ UNCHANGED <<calls, next_id, point_cloud>>
       ELSE /\ calls' = Append(calls, [ fn |-> "remove_global_outliers",
                                        pointcloud |-> PointCloudObject,
                                        margin |-> parameters["outlier_margin"],
                                        out |-> next_id ])
            /\ point_cloud' = build_city_point_cloud(point_cloud, parameters)
            /\ next_id' = next_id + 1
            /\ pc' = "build_dem"
            /\ UNCHANGED failure
    /\ UNCHANGED <<entry, file_path, parameters, p0, returned, footprint_file,
                   las_file, pointcloud, origin, bounds, city, city_out, result,
                   builder_city, i, writes, locals, heap, saved>>

\* builders.py:154-198: the raster is what points2grid and fill_holes produce
\* from the ground points.  Called by build_city, the raster returned is
\* assigned to city.terrain (builders.py:226).
build_dem ==
    /\ pc = "build_dem"
    /\ IF GetParametersFails(parameters)
       THEN Raise("AttributeError") /\ UNCHANGED <<city, calls, result, returned>>
       ELSE IF ~HasKeys(parameters, {"elevation_model_resolution",
                                     "elevation_model_window_size"})
       THEN Raise("KeyError") /\ UNCHANGED <<city, calls, result, returned>>
       ELSE /\ \E raster \in Rasters(Len(city.buildings)) :
                 /\ city' = IF entry = "build_dem" THEN city
                            ELSE [city EXCEPT !.terrain = raster]
                 /\ result' = Snapshot(result, "build_dem", raster)
            /\ calls' = Append(calls, [ fn |-> "points2grid",
                   ground_points |-> ground_points(point_cloud),
                   cell_size |-> parameters["elevation_model_resolution"],
                   window_size |-> parameters["elevation_model_window_size"] ])
            /\ returned' = returned \cup {"build_dem"}
            /\ pc' = Return("build_dem")
            /\ UNCHANGED failure
    /\ UNCHANGED <<entry, file_path, parameters, p0, footprint_file, las_file,
                   pointcloud, point_cloud, origin, bounds, city_in, city_out,
                   builder_city, i, writes, next_id, locals, heap, saved>>

\* the keys builders.py:81-86 reads
building_points_keys(pp) ==
    {"ground_margin", "outlier_margin", "roof_outlier_margin", "outlier_neighbors",
     "ransac_outlier_remover"}
    \cup (IF "ransac_outlier_remover" \in DOMAIN pp /\ pp["ransac_outlier_remover"]
          THEN {"ransac_outlier_margin", "ransac_iterations"} ELSE {})

\* builders.py:68-87: compute_building_points up to its loop; what
\* extractRoofPoints assigns to each building is the native code's choice
compute_building_points ==
    /\ pc = "compute_building_points"
    /\ city_in' = Snapshot(city_in, "compute_building_points", city)
    /\ IF GetParametersFails(parameters)
       THEN Raise("AttributeError") /\ UNCHANGED <<builder_city, i, calls, next_id>>
       ELSE IF ~HasKeys(parameters, building_points_keys(parameters))
       THEN Raise("KeyError") /\ UNCHANGED <<builder_city, i, calls, next_id>>
       ELSE /\ builder_city' \in [1..Len(city.buildings) -> Assignments]
            /\ calls' = calls \o compute_building_points_calls(city, point_cloud, next_id)
            /\ next_id' = next_id + 3
            /\ i' = 1
            /\ pc' = "compute_building_points_loop"
            /\ UNCHANGED failure
    /\ UNCHANGED <<entry, file_path, parameters, p0, returned, footprint_file,
                   las_file, pointcloud,
                   point_cloud, origin, bounds, city, city_out, result, writes,
                   locals, heap, saved>>

\* builders.py:92-101, one iteration
compute_building_points_loop ==
    /\ pc = "compute_building_points_loop"
    /\ i <= Len(city.buildings)
    /\ city' = [city EXCEPT !.buildings[i] =
                   Apply(@, building_points(builder_city[i]))]
    /\ writes' = Written(writes, i, building_points(builder_city[i]),
                         "compute_building_points")
    /\ i' = i + 1
    /\ UNCHANGED <<entry, pc, file_path, parameters, p0, failure, returned,
                   footprint_file, las_file, pointcloud,
                   point_cloud, origin, bounds, city_in, city_out,
                   result, builder_city, calls, next_id, locals, heap, saved>>

\* builders.py:103 `return city`: the object returned is the argument
compute_building_points_return ==
    /\ pc = "compute_building_points_loop"
    /\ i > Len(city.buildings)
    /\ returned' = returned \cup {"compute_building_points"}
    /\ city_out' = Snapshot(city_out, "compute_building_points", city)
    /\ result' = Snapshot(result, "compute_building_points", CityObject)
    /\ pc' = Return("compute_building_points")
    /\ UNCHANGED <<entry, file_path, parameters, p0, failure, footprint_file,
                   las_file, pointcloud,
                   point_cloud, origin, bounds, city, city_in, builder_city, i,
                   writes, calls, next_id, locals, heap, saved>>

\* builders.py:109-114: compute_building_heights up to its loop
compute_building_heights ==
    /\ pc = "compute_building_heights"
    /\ city_in' = Snapshot(city_in, "compute_building_heights", city)
    /\ IF GetParametersFails(parameters)
       THEN Raise("AttributeError") /\ UNCHANGED i
       ELSE IF ~HasKeys(parameters, {"min_building_height", "roof_percentile"})
       THEN Raise("KeyError") /\ UNCHANGED i
       ELSE i' = 1 /\ pc' = "compute_building_heights_loop" /\ UNCHANGED failure
    /\ UNCHANGED <<entry, file_path, parameters, p0, returned, footprint_file,
                   las_file, pointcloud,
                   point_cloud, origin, bounds, city, city_out, result, builder_city,
                   writes, calls, next_id, locals, heap, saved>>

\* builders.py:119-149, one iteration; city.terrain.get_value at the
\* footprint's centroid is the raster's value for this building
compute_building_heights_loop ==
    /\ pc = "compute_building_heights_loop"
    /\ i <= Len(city.buildings)
    /\ LET assignments == building_height(city.buildings[i], city.terrain.at[i],
                                          parameters["min_building_height"],
                                          parameters["roof_percentile"])
       IN  /\ city' = [city EXCEPT !.buildings[i] = Apply(@, assignments)]
           /\ writes' = Written(writes, i, assignments, "compute_building_heights")
    /\ i' = i + 1
    /\ UNCHANGED <<entry, pc, file_path, parameters, p0, failure, returned,
                   footprint_file, las_file, pointcloud,
                   point_cloud, origin, bounds, city_in, city_out,
                   result, builder_city, calls, next_id, locals, heap, saved>>

\* builders.py:151 `return city`
compute_building_heights_return ==
    /\ pc = "compute_building_heights_loop"
    /\ i > Len(city.buildings)
    /\ returned' = returned \cup {"compute_building_heights"}
    /\ city_out' = Snapshot(city_out, "compute_building_heights", city)
    /\ result' = Snapshot(result, "compute_building_heights", CityObject)
    /\ pc' = Return("compute_building_heights")
    /\ UNCHANGED <<entry, file_path, parameters, p0, failure, footprint_file,
                   las_file, pointcloud,
                   point_cloud, origin, bounds, city, city_in, builder_city, i,
                   writes, calls, next_id, locals, heap, saved>>

\* builders.py:234 `return city`
build_city_return ==
    /\ pc = "build_city_return"
    /\ returned' = returned \cup {"build_city"}
    /\ city_out' = Snapshot(city_out, "build_city", city)
    /\ result' = Snapshot(result, "build_city", CityObject)
    /\ pc' = Return("build_city")
    /\ UNCHANGED <<entry, file_path, parameters, p0, failure, footprint_file,
                   las_file, pointcloud,
                   point_cloud, origin, bounds, city, city_in, builder_city, i,
                   writes, calls, next_id, locals, heap, saved>>

(***************************************************************************)
(* builders.py: build_mesh, build_volume_mesh                              *)
(***************************************************************************)

inputVars == <<entry, file_path, footprint_file, las_file, pointcloud>>

domainVars == <<origin, bounds>>

cityVars == <<city, city_in, city_out, result, builder_city, i, writes, point_cloud>>

\* a local variable is bound to a value
Assign(l, name, v) == Update(l, [x \in {name} |-> v])

\* an object of the given kind is created
New(h, id, kind) == Update(h, [x \in {id} |-> kind])

\* builders.py:284-292 _debug: with p["debug"] the mesh is converted and
\* written as mesh_step<step>.vtu in the output directory
Debug(pp, obj, step) ==
    IF pp["debug"]
    THEN << [ directory |-> pp["output_directory"], name |-> "mesh_step",
              step |-> step, suffix |-> ".vtu", object |-> obj ] >>
    ELSE <<>>

\* builders.py:320-322 (and 263-265): the simplifier is given the native copy
\* of the city, the city's bounds and the two distances
SimplifyCity_call(builder_city_id, pp, out) ==
    [ fn |-> "SimplifyCity", city |-> builder_city_id,
      min_building_distance |-> pp["min_building_distance"],
      min_vertex_distance |-> pp["min_vertex_distance"], out |-> out ]

\* builders.py:325-329
BuildMesh2D_call(l, pp, out) ==
    [ fn |-> "BuildMesh2D", city |-> l["simple_city"],
      resolution |-> pp["mesh_resolution"], out |-> out ]

\* builders.py:333-335
BuildVolumeMesh_call(l, pp, out) ==
    [ fn |-> "BuildVolumeMesh", mesh |-> l["mesh"],
      domain_height |-> pp["domain_height"],
      resolution |-> pp["mesh_resolution"], out |-> out ]

\* builders.py:340-348 with fix_buildings = False and builders.py:356-364
\* with fix_buildings = True
smooth_volume_mesh_call(l, pp, fix_buildings, out) ==
    [ fn |-> "smooth_volume_mesh", volume_mesh |-> l["volume_mesh"],
      city |-> l["simple_city"], dem |-> l["builder_dem"],
      top_height |-> l["top_height"], fix_buildings |-> fix_buildings,
      max_iterations |-> pp["smoothing_max_iterations"],
      relative_tolerance |-> pp["smoothing_relative_tolerance"], out |-> out ]

\* builders.py:345: the flag of the first smoothing
first_fix_buildings == FALSE

\* builders.py:361: the flag of the second smoothing
second_fix_buildings == TRUE

\* builders.py:352
TrimVolumeMesh_call(l, out) ==
    [ fn |-> "TrimVolumeMesh", volume_mesh |-> l["volume_mesh"],
      mesh |-> l["mesh"], city |-> l["simple_city"], out |-> out ]

\* builders.py:368
ExtractBoundary3D_call(l, out) ==
    [ fn |-> "ExtractBoundary3D", volume_mesh |-> l["volume_mesh"], out |-> out ]

\* builders.py:247-281, the whole of build_mesh: it simplifies a native copy
\* of the city, builds the surfaces and returns the ground mesh and the
\* merged building mesh
build_mesh ==
    /\ pc = "build_mesh"
    /\ IF GetParametersFails(parameters)
       THEN Raise("AttributeError") /\ UNCHANGED <<calls, next_id, locals, heap, returned>>
       ELSE IF ~HasKeys(parameters, {"min_building_distance", "min_vertex_distance",
                                     "mesh_resolution"})
       THEN Raise("KeyError") /\ UNCHANGED <<calls, next_id, locals, heap, returned>>
       ELSE /\ calls' = calls \o
                 << create_builder_city(city, next_id),
                    [ fn |-> "raster_to_builder_gridfield", out |-> next_id + 1 ],
                    SimplifyCity_call(next_id, parameters, next_id + 2),
                    [ fn |-> "BuildSurface3D", city |-> next_id + 2,
                      dem |-> next_id + 1,
                      resolution |-> parameters["mesh_resolution"],
                      out |-> next_id + 3 ],
                    [ fn |-> "MergeSurfaces3D", out |-> next_id + 4 ] >>
            /\ heap' = New(New(heap, next_id + 5, "model.Mesh"),
                           next_id + 6, "model.Mesh")
            /\ locals' = Assign(Assign(locals, "ground_mesh", next_id + 5),
                                "building_mesh", next_id + 6)
            /\ next_id' = next_id + 7
            /\ returned' = returned \cup {"build_mesh"}
            /\ pc' = Return("build_mesh")
            /\ UNCHANGED failure
    /\ UNCHANGED <<inputVars, domainVars, cityVars, parameters, p0, saved>>

\* builders.py:304-322: build_volume_mesh up to and including the simplifier
build_volume_mesh ==
    /\ pc = "build_volume_mesh"
    /\ IF GetParametersFails(parameters)
       THEN Raise("AttributeError") /\ UNCHANGED <<calls, next_id, locals>>
       ELSE IF ~HasKeys(parameters, {"min_building_distance", "min_vertex_distance"})
       THEN Raise("KeyError") /\ UNCHANGED <<calls, next_id, locals>>
       ELSE /\ calls' = calls \o
                 << create_builder_city(city, next_id),
                    [ fn |-> "raster_to_builder_gridfield", out |-> next_id + 1 ],
                    SimplifyCity_call(next_id, parameters, next_id + 2) >>
            /\ locals' = Assign(Assign(Assign(locals, "builder_city", next_id),
                                       "builder_dem", next_id + 1),
                                "simple_city", next_id + 2)
            /\ next_id' = next_id + 3
            /\ pc' = "build_volume_mesh_3_1"
            /\ UNCHANGED failure
    /\ UNCHANGED <<inputVars, domainVars, cityVars, parameters, p0, returned,
                   heap, saved>>

\* builders.py:324-330, step 3.1: build the 2D mesh
build_volume_mesh_3_1 ==
    /\ pc = "build_volume_mesh_3_1"
    /\ IF ~HasKeys(parameters, {"mesh_resolution"})
       THEN Raise("KeyError") /\ UNCHANGED <<calls, next_id, locals, heap, saved>>
       ELSE /\ calls' = Append(calls, BuildMesh2D_call(locals, parameters, next_id))
            /\ heap' = New(heap, next_id, "_dtcc_builder.Mesh")
            /\ locals' = Assign(locals, "mesh", next_id)
            /\ saved' = saved \o Debug(parameters, next_id, "3.1")
            /\ next_id' = next_id + 1
            /\ pc' = "build_volume_mesh_3_2"
            /\ UNCHANGED failure
    /\ UNCHANGED <<inputVars, domainVars, cityVars, parameters, p0, returned>>

\* builders.py:332-336, step 3.2: layer the 2D mesh into a volume mesh
build_volume_mesh_3_2 ==
    /\ pc = "build_volume_mesh_3_2"
    /\ IF ~HasKeys(parameters, {"domain_height", "mesh_resolution"})
       THEN Raise("KeyError") /\ UNCHANGED <<calls, next_id, locals, heap, saved>>
       ELSE /\ calls' = Append(calls, BuildVolumeMesh_call(locals, parameters, next_id))
            /\ heap' = New(heap, next_id, "_dtcc_builder.VolumeMesh")
            /\ locals' = Assign(locals, "volume_mesh", next_id)
            /\ saved' = saved \o Debug(parameters, next_id, "3.2")
            /\ next_id' = next_id + 1
            /\ pc' = "build_volume_mesh_3_3"
            /\ UNCHANGED failure
    /\ UNCHANGED <<inputVars, domainVars, cityVars, parameters, p0, returned>>

\* builders.py:338-349, step 3.3: top_height is computed, then the volume
\* mesh is smoothed with the buildings not fixed; reading the two smoothing
\* keys comes before the call
build_volume_mesh_3_3 ==
    /\ pc = "build_volume_mesh_3_3"
    /\ IF ~HasKeys(parameters, {"domain_height"})
       THEN Raise("KeyError") /\ UNCHANGED <<calls, next_id, locals, heap, saved>>
       ELSE LET l == Assign(locals, "top_height",
                            parameters["domain_height"] + city.terrain.mean)
            IN  IF ~HasKeys(parameters, {"smoothing_max_iterations",
                                         "smoothing_relative_tolerance"})
                THEN /\ Raise("KeyError")
                     /\ locals' = l
                     /\ UNCHANGED <<calls, next_id, heap, saved>>
                ELSE /\ calls' = Append(calls, smooth_volume_mesh_call(
                                   l, parameters, first_fix_buildings, next_id))
                     /\ heap' = New(heap, next_id, "_dtcc_builder.VolumeMesh")
                     /\ locals' = Assign(l, "volume_mesh", next_id)
                     /\ saved' = saved \o Debug(parameters, next_id, "3.3")
                     /\ next_id' = next_id + 1
                     /\ pc' = "build_volume_mesh_3_4"
                     /\ UNCHANGED failure
    /\ UNCHANGED <<inputVars, domainVars, cityVars, parameters, p0, returned>>

\* builders.py:351-353, step 3.4: trim the building interiors
build_volume_mesh_3_4 ==
    /\ pc = "build_volume_mesh_3_4"
    /\ calls' = Append(calls, TrimVolumeMesh_call(locals, next_id))
    /\ heap' = New(heap, next_id, "_dtcc_builder.VolumeMesh")
    /\ locals' = Assign(locals, "volume_mesh", next_id)
    /\ saved' = saved \o Debug(parameters, next_id, "3.4")
    /\ next_id' = next_id + 1
    /\ pc' = "build_volume_mesh_3_5"
    /\ UNCHANGED <<inputVars, domainVars, cityVars, parameters, p0, returned, failure>>

\* builders.py:355-365, step 3.5: smooth again, with the buildings fixed
build_volume_mesh_3_5 ==
    /\ pc = "build_volume_mesh_3_5"
    /\ IF ~HasKeys(parameters, {"smoothing_max_iterations",
                                "smoothing_relative_tolerance"})
       THEN Raise("KeyError") /\ UNCHANGED <<calls, next_id, locals, heap, saved>>
       ELSE /\ calls' = Append(calls, smooth_volume_mesh_call(
                          locals, parameters, second_fix_buildings, next_id))
            /\ heap' = New(heap, next_id, "_dtcc_builder.VolumeMesh")
            /\ locals' = Assign(locals, "volume_mesh", next_id)
            /\ saved' = saved \o Debug(parameters, next_id, "3.5")
            /\ next_id' = next_id + 1
            /\ pc' = "build_volume_mesh_boundary"
            /\ UNCHANGED failure
    /\ UNCHANGED <<inputVars, domainVars, cityVars, parameters, p0, returned>>

\* builders.py:367-374: the boundary is extracted, both meshes are converted
\* and the pair (volume mesh, boundary mesh) is returned
build_volume_mesh_boundary ==
    /\ pc = "build_volume_mesh_boundary"
    /\ calls' = Append(calls, ExtractBoundary3D_call(locals, next_id))
    /\ heap' = New(New(New(heap, next_id, "_dtcc_builder.Mesh"),
                       next_id + 1, "model.VolumeMesh"),
                   next_id + 2, "model.Mesh")
    /\ locals' = Assign(Assign(Assign(locals, "volume_mesh_boundary", next_id),
                               "dtcc_volume_mesh", next_id + 1),
                        "dtcc_volume_mesh_boundary", next_id + 2)
    /\ next_id' = next_id + 3
    /\ returned' = returned \cup {"build_volume_mesh"}
    /\ pc' = Return("build_volume_mesh")
    /\ UNCHANGED <<inputVars, domainVars, cityVars, parameters, p0, failure, saved>>

(***************************************************************************)
(* builders.py: build                                                      *)
(***************************************************************************)

\* mesh.save(name.with_suffix(suffix)) and io.save_city(city, ...): the file
\* written and the object written into it
Save(pp, name, suffix, obj) ==
    [ directory |-> pp["output_directory"], name |-> name, suffix |-> suffix,
      object |-> obj ]

\* a run of `if p[key]: save ...` statements in order: the files written
\* until a key is missing, and whether one was
RECURSIVE SaveIf(_, _)
SaveIf(pp, steps) ==
    IF steps = <<>> THEN [saved |-> <<>>, failed |-> FALSE]
    ELSE IF Head(steps).key \notin DOMAIN pp THEN [saved |-> <<>>, failed |-> TRUE]
    ELSE LET rest == SaveIf(pp, Tail(steps))
         IN  [ saved |-> (IF pp[Head(steps).key] THEN Head(steps).files ELSE <<>>)
                         \o rest.saved,
               failed |-> rest.failed ]

\* builders.py:417-424
save_city_steps(pp) ==
    << [key |-> "save_protobuf", files |-> <<Save(pp, "city", ".pb", CityObject)>>],
       [key |-> "save_shp", files |-> <<Save(pp, "city", ".shp", CityObject)>>],
       [key |-> "save_json", files |-> <<Save(pp, "city", ".json", CityObject)>>] >>

\* builders.py:430-444
save_meshes_steps(pp, ground_mesh, building_mesh) ==
    << [key |-> "save_protobuf",
        files |-> << Save(pp, "ground_mesh", ".pb", ground_mesh),
                     Save(pp, "building_mesh", ".pb", building_mesh) >>],
       [key |-> "save_vtk",
        files |-> << Save(pp, "ground_mesh", ".vtk", ground_mesh),
                     Save(pp, "building_mesh", ".vtk", building_mesh) >>],
       [key |-> "save_stl",
        files |-> << Save(pp, "ground_mesh", ".stl", ground_mesh),
                     Save(pp, "building_mesh", ".stl", building_mesh) >>],
       [key |-> "save_obj",
        files |-> << Save(pp, "ground_mesh", ".obj", ground_mesh),
                     Save(pp, "building_mesh", ".obj", building_mesh) >>] >>

\* builders.py:450-462, with mesh and volume_mesh the two locals of build
save_volume_mesh_steps(pp, mesh, volume_mesh) ==
    << [key |-> "save_protobuf",
        files |-> << Save(pp, "mesh", ".pb", mesh),
                     Save(pp, "volume_mesh", ".pb", volume_mesh) >>],
       [key |-> "save_vtk",
        files |-> << Save(pp, "mesh", ".vtk", mesh),
                     Save(pp, "volume_mesh", ".vtk", volume_mesh) >>],
       [key |-> "save_stl", files |-> << Save(pp, "mesh", ".stl", mesh) >>],
       [key |-> "save_obj", files |-> << Save(pp, "mesh", ".obj", mesh) >>] >>

\* builders.py:388-397: build up to its first stage (the input files exist)
build ==
    /\ pc = "build"
    /\ IF GetParametersFails(parameters)
       THEN Raise("AttributeError")
       ELSE IF ~HasKeys(parameters, {"data_directory", "buildings_filename",
                                     "pointcloud_directory"})
       THEN Raise("KeyError")
       ELSE pc' = "compute_domain_bounds" /\ UNCHANGED failure
    /\ UNCHANGED <<inputVars, domainVars, cityVars, parameters, p0, returned,
                   calls, next_id, locals, heap, saved>>

\* builders.py:401-412: the city and the point cloud are loaded within the
\* bounds
build_load ==
    /\ pc = "build_load"
    /\ IF ~HasKeys(parameters, {"uuid_field", "height_field"})
       THEN Raise("KeyError") /\ UNCHANGED calls
       ELSE /\ calls' = calls \o
                 << [ fn |-> "load_city", bounds |-> bounds, out |-> CityObject,
                      buildings |-> Len(city.buildings) ],
                    [ fn |-> "load_pointcloud", bounds |-> bounds,
                      out |-> PointCloudObject ] >>
            /\ pc' = "build_city"
            /\ UNCHANGED failure
    /\ UNCHANGED <<inputVars, domainVars, cityVars, parameters, p0, returned,
                   next_id, locals, heap, saved>>

\* builders.py:417-427: the city is saved, then p["build_mesh"] decides
\* whether build_mesh is called
build_save_city ==
    /\ pc = "build_save_city"
    /\ LET r == SaveIf(parameters, save_city_steps(parameters))
       IN  /\ saved' = saved \o r.saved
           /\ IF r.failed \/ ~HasKeys(parameters, {"build_mesh"})
              THEN Raise("KeyError")
              ELSE /\ pc' = (IF parameters["build_mesh"] THEN "build_mesh"
                             ELSE "build_if_volume_mesh")
                   /\ UNCHANGED failure
    /\ UNCHANGED <<inputVars, domainVars, cityVars, parameters, p0, returned,
                   calls, next_id, locals, heap>>

\* builders.py:430-444
build_save_meshes ==
    /\ pc = "build_save_meshes"
    /\ LET r == SaveIf(parameters, save_meshes_steps(parameters,
                         locals["ground_mesh"], locals["building_mesh"]))
       IN  /\ saved' = saved \o r.saved
           /\ IF r.failed THEN Raise("KeyError")
              ELSE pc' = "build_if_volume_mesh" /\ UNCHANGED failure
    /\ UNCHANGED <<inputVars, domainVars, cityVars, parameters, p0, returned,
                   calls, next_id, locals, heap>>

\* builders.py:447
build_if_volume_mesh ==
    /\ pc = "build_if_volume_mesh"
    /\ IF ~HasKeys(parameters, {"build_volume_mesh"})
       THEN Raise("KeyError") /\ UNCHANGED returned
       ELSE IF parameters["build_volume_mesh"]
       THEN pc' = "build_volume_mesh" /\ UNCHANGED <<failure, returned>>
       ELSE /\ pc' = "done"
            /\ returned' = returned \cup {"build"}
            /\ UNCHANGED failure
    /\ UNCHANGED <<inputVars, domainVars, cityVars, parameters, p0,
                   calls, next_id, locals, heap, saved>>

\* builders.py:448: `mesh, volume_mesh = build_volume_mesh(city, p)` binds
\* mesh to the first result and volume_mesh to the second
unpack_volume_mesh(l) ==
    Assign(Assign(l, "build.mesh", l["dtcc_volume_mesh"]),
           "build.volume_mesh", l["dtcc_volume_mesh_boundary"])

\* builders.py:448-462
build_save_volume_mesh ==
    /\ pc = "build_save_volume_mesh"
    /\ locals' = unpack_volume_mesh(locals)
    /\ LET r == SaveIf(parameters, save_volume_mesh_steps(parameters,
                         locals'["build.mesh"], locals'["build.volume_mesh"]))
       IN  /\ saved' = saved \o r.saved
           /\ IF r.failed THEN Raise("KeyError") /\ UNCHANGED returned
              ELSE /\ pc' = "done"
                   /\ returned' = returned \cup {"build"}
                   /\ UNCHANGED failure
    /\ UNCHANGED <<inputVars, domainVars, cityVars, parameters, p0,
                   calls, next_id, heap>>

\* Meshing.py:66-79: the whole of write_surface; what the writer returns is
\* the native code's choice
write_surface_call ==
    /\ pc = "write_surface"
    /\ LET r == write_surface(locals["surface"], locals["file_name"],
                              locals["format"], locals["y_up"])
       IN  /\ calls' = calls \o r.calls
           /\ \E written \in BOOLEAN :
                 result' = Snapshot(result, "write_surface",
                                    IF r.returns = None THEN written
                                    ELSE r.returns.value)
    /\ returned' = returned \cup {"write_surface"}
    /\ pc' = Return("write_surface")
    /\ UNCHANGED <<entry, file_path, parameters, p0, failure, footprint_file,
                   las_file, pointcloud, point_cloud, origin, bounds, city,
                   city_in, city_out, builder_city, i, writes, next_id, locals,
                   heap, saved>>

Next ==
    \/ load_parameters_call
    \/ write_surface_call
    \/ compute_domain_bounds
    \/ build_city
    \/ build_dem
    \/ compute_building_points
    \/ compute_building_points_loop
    \/ compute_building_points_return
    \/ compute_building_heights
    \/ compute_building_heights_loop
    \/ compute_building_heights_return
    \/ build_city_return
    \/ build_mesh
    \/ build_volume_mesh
    \/ build_volume_mesh_3_1
    \/ build_volume_mesh_3_2
    \/ build_volume_mesh_3_3
    \/ build_volume_mesh_3_4
    \/ build_volume_mesh_3_5
    \/ build_volume_mesh_boundary
    \/ build
    \/ build_load
    \/ build_save_city
    \/ build_save_meshes
    \/ build_if_volume_mesh
    \/ build_save_volume_mesh

Spec == Init /\ [][Next]_vars

\* every p[...] subscript of builders.py, by function
keys_read ==
    \* compute_domain_bounds, builders.py:33-53
    {"auto_domain", "domain_margin", "x0", "y0", "x_min", "y_min", "x_max", "y_max"}
    \* compute_building_points, builders.py:81-86
    \cup {"ground_margin", "outlier_margin", "roof_outlier_margin", "outlier_neighbors",
          "ransac_outlier_remover", "ransac_outlier_margin", "ransac_iterations"}
    \* compute_building_heights, builders.py:113-114
    \cup {"min_building_height", "roof_percentile"}
    \* build_dem, builders.py:168-169
    \cup {"elevation_model_resolution", "elevation_model_window_size"}
    \* build_mesh, builders.py:264-269; _debug, builders.py:286-292
    \cup {"min_building_distance", "min_vertex_distance", "mesh_resolution",
          "debug", "output_directory"}
    \* build_volume_mesh, builders.py:321-363
    \cup {"domain_height", "smoothing_max_iterations", "smoothing_relative_tolerance"}
    \* build, builders.py:392-461
    \cup {"data_directory", "buildings_filename", "pointcloud_directory",
          "uuid_field", "height_field", "save_protobuf", "save_shp", "save_json",
          "build_mesh", "save_vtk", "save_stl", "save_obj", "build_volume_mesh"}

(***************************************************************************)
(* Properties                                                              *)
(***************************************************************************)

Ended == pc \in {"done", "failed"}

Buildings == 1..Len(city.buildings)

HeightsDone == "compute_building_heights" \in returned

\* the native stages of build_volume_mesh, in the order they were called
StageNames ==
    { "SimplifyCity", "BuildMesh2D", "BuildVolumeMesh", "smooth_volume_mesh",
      "TrimVolumeMesh", "ExtractBoundary3D" }

IsStage(c) == c.fn \in StageNames

Stages == SelectSeq(calls, IsStage)

StageOrder ==
    << "SimplifyCity", "BuildMesh2D", "BuildVolumeMesh", "smooth_volume_mesh",
       "TrimVolumeMesh", "smooth_volume_mesh", "ExtractBoundary3D" >>

\* the seven stages, once each, in order, each fed the previous one's output,
\* the two smoothings alike but for fix_buildings
StagesAsClaimed ==
    LET st == Stages
    IN  /\ [k \in 1..Len(st) |-> st[k].fn] = StageOrder
        /\ st[2].city = st[1].out
        /\ st[3].mesh = st[2].out
        /\ st[4].volume_mesh = st[3].out
        /\ st[5].volume_mesh = st[4].out
        /\ st[6].volume_mesh = st[5].out
        /\ st[7].volume_mesh = st[6].out
        /\ st[4].fix_buildings = FALSE
        /\ st[6].fix_buildings = TRUE
        /\ st[4].city = st[1].out
        /\ \A f \in {"city", "dem", "top_height", "max_iterations", "relative_tolerance"} :
              st[4][f] = st[6][f]

\* C1: in every run of build_volume_mesh (here: called with a mapping that
\* load_parameters returned) the seven stages are invoked exactly once each,
\* in order, each consuming the previous output, and the two smoothing calls
\* differ only in fix_buildings.
C1_StagesOnceInOrder ==
    (entry = "build_volume_mesh" /\ file_path.call /\ Ended) => StagesAsClaimed

\* What does hold of build_volume_mesh: a run that returns has made the seven
\* stage calls as claimed, and at every moment the stages called so far are a
\* prefix of the claimed order.
VolumeStagesWhenReturned ==
    (entry = "build_volume_mesh" /\ "build_volume_mesh" \in returned) => StagesAsClaimed

VolumeStagesPrefix ==
    entry = "build_volume_mesh" =>
        /\ Len(Stages) <= Len(StageOrder)
        /\ \A k \in 1..Len(Stages) : Stages[k].fn = StageOrder[k]

\* C2 (as stated): whenever compute_building_points hands a city to
\* extractRoofPoints, the simplifier has run before and that city is its output.
C2_SimplifiedBeforeBuildingPoints ==
    \A k \in 1..Len(calls) :
        calls[k].fn = "extractRoofPoints" =>
            \E j \in 1..(k - 1) :
                calls[j].fn = "SimplifyCity" /\ calls[j].out = calls[k].city

\* C2 (amended): compute_building_points receives the city as loaded: no
\* simplifier call precedes extractRoofPoints, the city handed over is the
\* native copy of the caller's City with all of its buildings; the simplifier
\* runs only in build_mesh and build_volume_mesh, on a native copy, and within
\* build only after build_city has returned.
C2_BuildingPointsOnLoadedCity ==
    /\ \A k \in 1..Len(calls) :
          calls[k].fn = "extractRoofPoints" =>
              /\ \A j \in 1..(k - 1) : calls[j].fn # "SimplifyCity"
              /\ calls[k].buildings = Len(city.buildings)
              /\ \E j \in 1..(k - 1) :
                    /\ calls[j].fn = "create_builder_city"
                    /\ calls[j].city = CityObject
                    /\ calls[j].out = calls[k].city
    /\ \A k \in 1..Len(calls) :
          calls[k].fn = "SimplifyCity" =>
              /\ entry \in {"build", "build_volume_mesh"}
              /\ entry = "build" => "build_city" \in returned
              /\ calls[k].city # CityObject

\* C2 witness: a run of build in which the roof points were extracted and the
\* simplifier ran later
C2_Witness ==
    /\ entry = "build"
    /\ \E k \in 1..Len(calls) : \E j \in (k + 1)..Len(calls) :
          /\ calls[k].fn = "extractRoofPoints"
          /\ calls[k].buildings > 0
          /\ calls[j].fn = "SimplifyCity"

\* C3: after compute_building_heights every building without roof points has
\* height = min_building_height and ground_level = the terrain value at its
\* footprint's centroid.
C3_NoRoofPoints ==
    HeightsDone =>
        \A k \in Buildings :
            Len(city.buildings[k].roofpoints) = 0 =>
                /\ city.buildings[k].height = parameters["min_building_height"]
                /\ city.buildings[k].ground_level = city.terrain.at[k]

\* C4: after compute_building_points and compute_building_heights every
\* building with a roof point has ground_level = the median z of its ground
\* samples if it has any (also when that median is 0), and the terrain value
\* at its centroid if it has none (whatever its ground_level was on input).
C4_GroundLevelOfRoofedBuilding ==
    HeightsDone =>
        \A k \in Buildings :
            Len(city.buildings[k].roofpoints) > 0 =>
                city.buildings[k].ground_level =
                    IF Len(builder_city[k].ground_points) > 0
                    THEN percentile(builder_city[k].ground_points, 500)
                    ELSE city.terrain.at[k]

\* C5: after compute_building_heights every building with a roof point has
\* height = max(roof_top - ground_level, min_building_height), roof_top being
\* the roof_percentile percentile of its roof points' z and ground_level its
\* ground level at the end of the stage; and every building has
\* height >= min_building_height.
C5_HeightFloor ==
    HeightsDone =>
        \A k \in Buildings :
            LET b == city.buildings[k]
                roof_top == percentile(b.roofpoints, parameters["roof_percentile"])
            IN  /\ b.height >= parameters["min_building_height"]
                /\ Len(b.roofpoints) > 0 =>
                      b.height = Max(roof_top - b.ground_level,
                                     parameters["min_building_height"])

\* C5 witness: the heights are computed, one building with roof points was
\* raised to the minimum height and another stands above it
C5_Witness ==
    /\ HeightsDone
    /\ \E k \in Buildings :
          LET b == city.buildings[k]
          IN  /\ Len(b.roofpoints) > 0
              /\ percentile(b.roofpoints, parameters["roof_percentile"])
                    - b.ground_level < parameters["min_building_height"]
              /\ b.height = parameters["min_building_height"]
    /\ \E k \in Buildings :
          /\ Len(city.buildings[k].roofpoints) > 1
          /\ city.buildings[k].height > parameters["min_building_height"]

C7_InputCityUnchanged ==
    \A fn \in DOMAIN city_out :
        /\ city_out[fn] = city_in[fn]
        /\ result[fn] # CityObject

DomainDone == "compute_domain_bounds" \in returned

\* compute_domain_bounds has just returned
DomainReturns == DomainDone /\ pc = Return("compute_domain_bounds")

\* the mappings that differ from pp at most in the six manual keys
ManualVariants(pp) ==
    { Update(pp, m) : m \in [ManualKeys -> {-1000, 5000}] }

\* C8: with auto_domain false the returned origin is (x0, y0) and the bounds
\* are (x0+x_min, y0+y_min, x0+x_max, y0+y_max); with auto_domain true the
\* results are the intersection of the footprint bounds enlarged by
\* domain_margin with the point-cloud bounds, and the same for every mapping
\* that differs only in the six manual keys.
C8_ManualKeysIffNotAuto ==
    DomainReturns =>
        IF ~p0["auto_domain"]
        THEN /\ origin = <<p0["x0"], p0["y0"]>>
             /\ bounds = [ xmin |-> p0["x0"] + p0["x_min"],
                           ymin |-> p0["y0"] + p0["y_min"],
                           xmax |-> p0["x0"] + p0["x_max"],
                           ymax |-> p0["y0"] + p0["y_max"] ]
        ELSE /\ bounds.xmin = Max(footprint_file[1] - p0["domain_margin"], las_file[1])
             /\ bounds.ymin = Max(footprint_file[2] - p0["domain_margin"], las_file[2])
             /\ bounds.xmax = Min(footprint_file[3] + p0["domain_margin"], las_file[3])
             /\ bounds.ymax = Min(footprint_file[4] + p0["domain_margin"], las_file[4])
             /\ origin = <<bounds.xmin, bounds.ymin>>
             /\ \A q \in ManualVariants(p0) :
                   LET r == ComputeDomainBounds(q, footprint_file, las_file)
                   IN  r.failure = "" /\ r.origin = origin /\ r.bounds = bounds

\* C8 witness: the bounds were computed automatically from a mapping whose
\* manual keys were set to something else
C8_Witness ==
    /\ DomainReturns
    /\ p0["auto_domain"]
    /\ p0["x0"] # 0
    /\ p0["x_max"] # 0
    /\ origin # <<p0["x0"], p0["y0"]>>

\* the spec's parameter table: the keys with a listed default
TableDefaults ==
    [ auto_domain |-> TRUE,
      domain_margin |-> 10 * Milli,
      x0 |-> 0, y0 |-> 0, x_min |-> 0, y_min |-> 0, x_max |-> 0, y_max |-> 0,
      elevation_model_resolution |-> 1 * Milli,
      outlier_margin |-> 2 * Milli,
      outlier_neighbors |-> 5 * Milli,
      roof_outlier_margin |-> 1500,
      ransac_outlier_remover |-> TRUE,
      ransac_outlier_margin |-> 3 * Milli,
      ransac_iterations |-> 250 * Milli,
      naive_vegetation_filter |-> TRUE,
      ground_margin |-> 1 * Milli,
      min_building_distance |-> 1 * Milli,
      min_building_size |-> 15 * Milli,
      min_building_height |-> 2500,
      min_vertex_distance |-> 1 * Milli,
      roof_percentile |-> 900,
      mesh_resolution |-> 10 * Milli,
      domain_height |-> 100 * Milli,
      smoothing_relative_tolerance |-> 1 ]

\* the table's keys whose default is left to the implementation
TableImplementationKeys == {"elevation_model_window_size", "smoothing_max_iterations"}

\* C9: the mapping load_parameters returns when called with no file holds
\* every key of the spec's parameter table, with the table's default, and
\* every key the build functions read.
C9_DefaultsMatchTable ==
    (pc # "caller" /\ file_path.call /\ ~file_path.given) =>
        /\ \A k \in DOMAIN TableDefaults :
              k \in DOMAIN p0 /\ p0[k] = TableDefaults[k]
        /\ TableImplementationKeys \subseteq DOMAIN p0
        /\ keys_read \subseteq DOMAIN p0

\* C10: compute_domain_bounds with auto_domain false and an inverted manual
\* box (x_max < x_min or y_max < y_min) never returns; it ends in InvalidInput.
C10_InvertedBoxRejected ==
    ( /\ pc \notin {"caller", "build"}
      /\ p0 # NoParameters
      /\ ~p0["auto_domain"]
      /\ (p0["x_max"] < p0["x_min"] \/ p0["y_max"] < p0["y_min"]) ) =>
        /\ ~DomainDone
        /\ Ended => failure = "InvalidInput"

(***************************************************************************)
(* C11: global outlier removal                                             *)
(***************************************************************************)

\* point k of the cloud lies within margin standard deviations of the mean z:
\* (z - mu)^2 <= margin^2 * sigma^2 with mu = S/n and sigma^2 = SS/n - mu^2,
\* multiplied out by n^2
WithinMargin(cloud, k, margin) ==
    LET n == Len(cloud.points)
        S == Sum([j \in 1..n |-> cloud.points[j].z])
        SS == Sum([j \in 1..n |-> cloud.points[j].z * cloud.points[j].z])
        g == Gcd(margin, Milli)
        dev == n * cloud.points[k].z - S
    IN  (Milli \div g) * (Milli \div g) * dev * dev
            <= (margin \div g) * (margin \div g) * (n * SS - S * S)

InRange(cloud, margin) ==
    { cloud.points[k] : k \in { j \in DOMAIN cloud.points : WithinMargin(cloud, j, margin) } }

Removals == { j \in DOMAIN calls : calls[j].fn = "remove_global_outliers" }

SeesPointCloud == {"points2grid", "create_builder_pointcloud", "extractRoofPoints"}

\* C11: once build_city has removed the outliers of a (non-empty) cloud, the
\* cloud it works on holds exactly the points of the caller's cloud whose z
\* lies within outlier_margin standard deviations of the mean z, each once,
\* in their order and with their class, hence no more points than the
\* caller's; it is a new object; and in build_city every call that is given
\* the cloud comes after the removal and is given points of the reduced cloud.
C11_OutliersRemovedFirst ==
    /\ Removals # {} =>
         /\ Cardinality(Removals) = 1
         /\ \A j \in Removals :
              /\ calls[j].pointcloud = PointCloudObject
              /\ calls[j].out # PointCloudObject
              /\ calls[j].margin = p0["outlier_margin"]
         /\ { point_cloud.points[k] : k \in DOMAIN point_cloud.points }
                = InRange(pointcloud, p0["outlier_margin"])
         /\ \A j, k \in DOMAIN point_cloud.points :
                j < k => point_cloud.points[j].x < point_cloud.points[k].x
         /\ Len(point_cloud.points) <= Len(pointcloud.points)
         /\ has_classifixation(pointcloud) =>
              /\ has_classifixation(point_cloud)
              /\ \A k \in DOMAIN point_cloud.points :
                    point_cloud.classification[k]
                        = pointcloud.classification[point_cloud.points[k].x]
    /\ entry # "build_dem" =>
         \A k \in DOMAIN calls :
            calls[k].fn \in SeesPointCloud =>
                /\ \E j \in Removals : j < k
                /\ calls[k].fn = "points2grid" =>
                     \A n \in DOMAIN calls[k].ground_points :
                        calls[k].ground_points[n]
                            \in InRange(pointcloud, p0["outlier_margin"])
                /\ calls[k].fn = "create_builder_pointcloud" =>
                     { calls[k].pointcloud.points[n] :
                           n \in DOMAIN calls[k].pointcloud.points }
                         = InRange(pointcloud, p0["outlier_margin"])

\* build_city has dropped an outlier and kept the other points, and build_dem
\* and compute_building_points have been given the reduced cloud
C11_Witness ==
    /\ entry = "build_city"
    /\ Removals # {}
    /\ Len(pointcloud.points) = MaxPoints
    /\ Len(point_cloud.points) = MaxPoints - 1
    /\ \E k \in DOMAIN calls : calls[k].fn = "create_builder_pointcloud"

(***************************************************************************)
(* C12: write_surface                                                      *)
(***************************************************************************)

WriterCalls == { k \in DOMAIN calls : calls[k].fn = "WriteSurface3D" }

\* C12: when write_surface has returned, for a format among obj, stl and gltf
\* the writer was invoked once, with the caller's y_up if the caller gave one
\* (true or false) and otherwise with true for obj and gltf and false for
\* stl; for any other format write_surface returned False and the writer was
\* not invoked.
C12_YUpFlag ==
    (entry = "write_surface" /\ pc = "done") =>
        IF locals["format"] \in {"obj", "stl", "gltf"}
        THEN /\ Cardinality(WriterCalls) = 1
             /\ \A k \in WriterCalls :
                  /\ locals["y_up"] = Some(TRUE) => calls[k].y_up = TRUE
                  /\ locals["y_up"] = Some(FALSE) => calls[k].y_up = FALSE
                  /\ locals["y_up"] = None =>
                        calls[k].y_up = (locals["format"] # "stl")
        ELSE /\ WriterCalls = {}
             /\ result["write_surface"] = FALSE

\* write_surface was called for obj with y_up = False and the writer got False
C12_Witness ==
    /\ entry = "write_surface"
    /\ pc = "done"
    /\ locals["format"] = "obj"
    /\ locals["y_up"] = Some(FALSE)
    /\ \E k \in WriterCalls : calls[k].y_up = FALSE

(***************************************************************************)
(* C13: the ground points of build_dem                                     *)
(***************************************************************************)

\* the points of a classified cloud whose class is ground (2) or water (9)
GroundOrWater(cloud) ==
    { cloud.points[k] : k \in { j \in DOMAIN cloud.points :
                                   cloud.classification[j] \in {2, 9} } }

\* C13: the points build_dem hands to the gridder are exactly the points
\* classified 2 or 9 whenever the cloud has one class per point - also when
\* it has water points and no class-2 point - and all the points only when
\* the classification array is empty or of another length.
C13_GroundPointsOnly ==
    \A k \in DOMAIN calls :
        calls[k].fn = "points2grid" =>
            IF Len(point_cloud.classification) = Len(point_cloud.points)
            THEN { calls[k].ground_points[n] : n \in DOMAIN calls[k].ground_points }
                     = GroundOrWater(point_cloud)
            ELSE calls[k].ground_points = point_cloud.points

(***************************************************************************)
(* C14: the two results of build_volume_mesh in build                      *)
(***************************************************************************)

\* C14: of the files build writes, those named "volume_mesh" hold the first
\* result of build_volume_mesh (the tetrahedral volume mesh), those named
\* "mesh" hold its second result (the boundary surface mesh), and no volume
\* mesh is written to an .stl or .obj file.
C14_ResultsKeptApart ==
    \A k \in DOMAIN saved :
        /\ saved[k].name = "volume_mesh" =>
              /\ saved[k].object = locals["dtcc_volume_mesh"]
              /\ heap[saved[k].object] = "model.VolumeMesh"
        /\ saved[k].name = "mesh" =>
              /\ saved[k].object = locals["dtcc_volume_mesh_boundary"]
              /\ heap[saved[k].object] = "model.Mesh"
        /\ (saved[k].suffix \in {".stl", ".obj"} /\ saved[k].object \in DOMAIN heap) =>
              heap[saved[k].object] # "model.VolumeMesh"

(***************************************************************************)
(* C15: the mapping compute_domain_bounds leaves behind in auto mode       *)
(***************************************************************************)

\* a second call of compute_domain_bounds on the mapping the first call left,
\* with auto_domain switched to false
SecondCall ==
    ComputeDomainBounds([parameters EXCEPT !["auto_domain"] = FALSE],
                        footprint_file, las_file)

\* C15 as claimed: after a call in auto mode the six manual keys of the
\* mapping give back the returned origin and bounds exactly, so that a second
\* call with auto_domain false returns the same origin and bounds; a call
\* with auto_domain false leaves the mapping as it was.
C15_MappingReproducesBounds ==
    DomainReturns =>
        IF p0["auto_domain"]
        THEN /\ <<parameters["x0"], parameters["y0"]>> = origin
             /\ parameters["x0"] + parameters["x_min"] = bounds.xmin
             /\ parameters["y0"] + parameters["y_min"] = bounds.ymin
             /\ parameters["x0"] + parameters["x_max"] = bounds.xmax
             /\ parameters["y0"] + parameters["y_max"] = bounds.ymax
             /\ SecondCall.failure = ""
             /\ SecondCall.origin = origin
             /\ SecondCall.bounds = bounds
        ELSE parameters = p0

\* twice the distance of the floats u and v is at most the float spacing at
\* the exact extent plus the float spacing at u: one rounding of the extent
\* and one rounding of the sum
WithinRounding(u, v, extent) ==
    2 * Abs(u - v) <= Spacing(extent, 1) + Spacing(u, 1)

\* C15, amended: after a call in auto mode the mapping has (x0, y0) = the
\* returned origin = (xmin, ymin) and x_min = y_min = 0 exactly, and x_max,
\* y_max are the rounded extents xmax - xmin, ymax - ymin; a second call
\* with auto_domain false returns the same origin, xmin and ymin, and an xmax
\* and ymax within two float roundings of the first call's, and writes
\* nothing; a call with auto_domain false leaves the mapping as it was.
C15_MappingWithinRounding ==
    DomainReturns =>
        IF p0["auto_domain"]
        THEN /\ <<parameters["x0"], parameters["y0"]>> = origin
             /\ origin = <<bounds.xmin, bounds.ymin>>
             /\ parameters["x_min"] = 0 /\ parameters["y_min"] = 0
             /\ 2 * Abs(parameters["x_max"] - (bounds.xmax - bounds.xmin))
                    <= Spacing(bounds.xmax - bounds.xmin, 1)
             /\ 2 * Abs(parameters["y_max"] - (bounds.ymax - bounds.ymin))
                    <= Spacing(bounds.ymax - bounds.ymin, 1)
             /\ \A k \in DOMAIN p0 \ ManualKeys : parameters[k] = p0[k]
             /\ SecondCall.failure = ""
             /\ SecondCall.origin = origin
             /\ SecondCall.bounds.xmin = bounds.xmin
             /\ SecondCall.bounds.ymin = bounds.ymin
             /\ WithinRounding(SecondCall.bounds.xmax, bounds.xmax,
                               bounds.xmax - bounds.xmin)
             /\ WithinRounding(SecondCall.bounds.ymax, bounds.ymax,
                               bounds.ymax - bounds.ymin)
             /\ SecondCall.p = [parameters EXCEPT !["auto_domain"] = FALSE]
        ELSE parameters = p0

\* the bounds were computed automatically, the mapping's manual keys were
\* rewritten, and the second call's xmax is not the first call's
C15_Witness ==
    /\ DomainReturns
    /\ p0["auto_domain"]
    /\ parameters # p0
    /\ SecondCall.failure = ""
    /\ SecondCall.bounds.xmax # bounds.xmax
    /\ SecondCall.bounds.ymax = bounds.ymax

====
